---- MODULE Spec2Model ----
(***************************************************************************)
(* A model of bot.py: the trading bot's per-coin decision engine           *)
(* (check_trading_conditions), its price feed (get_current_prices), its    *)
(* state file (load_state / save_state) and the control flow of main(),    *)
(* including the places at which an exception or a KeyboardInterrupt       *)
(* leaves it.                                                              *)
(*                                                                         *)
(* Numbers.  Prices are whole dollars.  The thresholds 0.05 and 0.10 are   *)
(* kept as percentages and the comparisons of lines 95 and 136 are made    *)
(* by cross-multiplication; for the integer prices of the model the IEEE   *)
(* double results of (price - ref) / ref <= -0.05 and                      *)
(* (price - buy) / buy >= 0.10 are the same (the subtraction is exact and  *)
(* a quotient other than the threshold is further from it than an ulp).    *)
(* Coin amounts are integers in units of 10^-AMOUNT_DIGITS coin.           *)
(***************************************************************************)
EXTENDS Integers, Sequences, FiniteSets, TLC

\* ------------------------------------------------------------ configuration
AMOUNT_TO_BUY == 5
PRICE_DROP_THRESHOLD == 5
PRICE_RISE_THRESHOLD == 10
ALL_COINS == <<"BTC", "TON", "ETH", "XRP", "ADA", "DOGE">>

\* The model monitors the first NumCoins coins of the list.
NumCoins == 2
COINS == SubSeq(ALL_COINS, 1, NumCoins)
CoinSet == {COINS[i] : i \in 1..NumCoins}

\* The prices the exchange may report, in dollars.
MinPrice == 19
MaxPrice == 21
Prices == MinPrice..MaxPrice

\* ticker['last'] may be None (the exchange reports no last trade); it is
\* encoded as 0, which is no price of the model.
None == 0
\* fetch_ticker raising, as a response of the exchange.
FetchError == 99

\* What the exchange may answer to one fetch_ticker call.
TickerResponses == Prices \cup {None, FetchError}

\* market['precision']['amount']: an int (decimal places) or a float (a tick
\* size).  The model's exchange uses MaxPrecision decimal places or a tick.
MaxPrecision == 2
DEFAULT_PRECISION == 8
\* Amounts are counted in units of the finest precision the code rounds to.
AMOUNT_DIGITS == DEFAULT_PRECISION
MarketPrecisions == {[type |-> "int", value |-> MaxPrecision],
                     [type |-> "float", value |-> 0]}

\* The exceptions the exchange client raises from load_markets and from
\* create_market_*_order; all of them derive from Exception.
ExchangeErrors == {"NetworkError", "InsufficientFunds"}

\* ------------------------------------------------------------ maps (dicts)
EmptyMap == [c \in {} |-> 0]
Has(m, k) == k \in DOMAIN m
Put(m, k, v) == [c \in (DOMAIN m) \cup {k} |-> IF c = k THEN v ELSE m[c]]
Del(m, k) == [c \in (DOMAIN m) \ {k} |-> m[c]]

EmptyState == [holdings |-> EmptyMap, buy_prices |-> EmptyMap,
               reference_prices |-> EmptyMap]

\* ------------------------------------------------------------ the state file
\* A variant that writes numbers with two decimals (amounts are in units of
\* 10^-8, so six digits are lost).
json_dump_value_2dp(v) ==
    IF v = None THEN <<"null">> ELSE <<"number", (v \div 1000000) * 1000000>>

\* json.dump / json.load of one value of the state: a float or None.
json_dump_value(v) == IF v = None THEN <<"null">> ELSE <<"number", v>>
json_load_value(j) == IF j[1] = "null" THEN None ELSE j[2]
json_dump_map(m) == [c \in DOMAIN m |-> json_dump_value(m[c])]
json_load_map(j) == [c \in DOMAIN j |-> json_load_value(j[c])]

json_dump(st) == [holdings |-> json_dump_map(st.holdings),
                  buy_prices |-> json_dump_map(st.buy_prices),
                  reference_prices |-> json_dump_map(st.reference_prices)]
json_load(doc) == [holdings |-> json_load_map(doc.holdings),
                   buy_prices |-> json_load_map(doc.buy_prices),
                   reference_prices |-> json_load_map(doc.reference_prices)]

\* The file: absent, truncated by open(STATE_FILE, 'w') and not yet (or only
\* partly) written, or holding a complete document.
FileAbsent == [kind |-> "absent", doc |-> json_dump(EmptyState)]
FilePartial == [kind |-> "partial", doc |-> json_dump(EmptyState)]
FileOf(st) == [kind |-> "complete", doc |-> json_dump(st)]


\* ------------------------------------------------------------ price feed
\* A variant that gives up at the first coin whose fetch_ticker raises (the
\* try around the loop instead of inside it).
get_current_prices_abort(tk) ==
    [c \in {d \in CoinSet :
               \A i, j \in 1..NumCoins :
                   (COINS[i] = d /\ j <= i) => tk[COINS[j]] # FetchError}
        |-> tk[c]]

\* get_current_prices: one fetch_ticker per coin; a coin whose call raised is
\* left out of the result, the others keep the price they were given.
get_current_prices(tk) ==
    [c \in {d \in CoinSet : tk[d] # FetchError} |-> tk[c]]

\* current_prices.items(): the coins of the mapping in insertion order,
\* which is the order of COINS.
Items(cp) == SelectSeq(COINS, LAMBDA c : c \in DOMAIN cp)

\* ------------------------------------------------------------ order sizing
RECURSIVE Pow10(_)
Pow10(n) == IF n = 0 THEN 1 ELSE 10 * Pow10(n - 1)

\* A variant that truncates.
round_amount_truncate(amt, precision) ==
    ((amt[1] * Pow10(precision)) \div amt[2])
        * Pow10(AMOUNT_DIGITS - precision)

\* round_amount(amount, precision) for amount = amt[1] / amt[2]:
\* floor(amount * 10^precision + 0.5) / 10^precision, in units of
\* 10^-AMOUNT_DIGITS.
round_amount(amt, precision) ==
    ((2 * amt[1] * Pow10(precision) + amt[2]) \div (2 * amt[2]))
        * Pow10(AMOUNT_DIGITS - precision)

\* Line 107: the market's precision when it is an int, 8 otherwise.
amount_precision(mp) ==
    IF mp.type = "int" THEN mp.value ELSE DEFAULT_PRECISION

\* Lines 100-110: the amount of the buy order at this price.
amount_in_coin(price, mp) ==
    round_amount(<<AMOUNT_TO_BUY, price>>, amount_precision(mp))

\* A variant that sells half of the holding.
amount_to_sell_half(st, coin) == st.holdings[coin] \div 2

\* Line 139: the amount of the sell order.
amount_to_sell(st, coin) == st.holdings[coin]

\* ------------------------------------------------------------ decisions
\* A variant whose drop threshold is exclusive.
DropHit_strict(price, reference_price) ==
    (price - reference_price) * 100 < -(PRICE_DROP_THRESHOLD * reference_price)

\* Line 93-95: (price - reference_price) / reference_price <= -0.05
DropHit(price, reference_price) ==
    (price - reference_price) * 100 <= -(PRICE_DROP_THRESHOLD * reference_price)

\* Line 134-136: (price - buy_price) / buy_price >= 0.10
RiseHit(price, buy_price) ==
    (price - buy_price) * 100 >= PRICE_RISE_THRESHOLD * buy_price

\* A variant that follows the price in both directions.
RatchetHit_any(price, reference_price) == price # reference_price

\* Line 127: the reference follows the price when the price is lower.
RatchetHit(price, reference_price) == price < reference_price

\* The branch check_trading_conditions takes for one (coin, price).  A None
\* among the operands of the arithmetic of line 93 or 134 is a TypeError,
\* raised outside the try blocks.
Branch(st, coin, price) ==
    IF ~Has(st.reference_prices, coin) THEN "init"
    ELSE IF ~Has(st.holdings, coin)
         THEN IF price = None \/ st.reference_prices[coin] = None
              THEN "TypeError"
              ELSE IF DropHit(price, st.reference_prices[coin]) THEN "buy"
              ELSE IF RatchetHit(price, st.reference_prices[coin])
                   THEN "ratchet" ELSE "flat_keep"
         ELSE IF ~Has(st.buy_prices, coin) THEN "KeyError"
              ELSE IF price = None \/ st.buy_prices[coin] = None
              THEN "TypeError"
              ELSE IF RiseHit(price, st.buy_prices[coin]) THEN "sell"
              ELSE "hold_keep"

\* A variant that does not store the first price.
InitReference_skip(st, coin, price) == st

\* Lines 86-88.
InitReference(st, coin, price) ==
    [st EXCEPT !.reference_prices = Put(@, coin, price)]

\* A variant that does not reset the reference price after the buy.
RecordPurchase_keep_reference(st, coin, amount, price) ==
    [st EXCEPT !.holdings = Put(@, coin, amount),
               !.buy_prices = Put(@, coin, price)]

\* Lines 116-121.
RecordPurchase(st, coin, amount, price) ==
    [st EXCEPT !.holdings = Put(@, coin, amount),
               !.buy_prices = Put(@, coin, price),
               !.reference_prices = Put(@, coin, price)]

\* A variant that leaves the reference price where it is.
UpdateReference_keep(st, coin, price) == st

\* Lines 127-128.
UpdateReference(st, coin, price) ==
    [st EXCEPT !.reference_prices = Put(@, coin, price)]

\* A variant that lets the reference price follow a falling price while the
\* coin is held.
KeepHolding_ratchet(st, coin, price) ==
    IF price < st.reference_prices[coin]
    THEN [st EXCEPT !.reference_prices = Put(@, coin, price)]
    ELSE st

\* Lines 132-137 when the test of line 136 fails: there is no else branch,
\* nothing is assigned.
KeepHolding(st, coin, price) == st

\* A variant that keeps the holdings entry of the coin it sold.
RemoveHolding_keep_holding(st, coin, price) ==
    [st EXCEPT !.buy_prices = Del(@, coin),
               !.reference_prices = Put(@, coin, price)]

\* A variant that forgets the buy_prices entry.
RemoveHolding_keep_buy_price(st, coin, price) ==
    [st EXCEPT !.holdings = Del(@, coin),
               !.reference_prices = Put(@, coin, price)]

\* Lines 146-151.
RemoveHolding(st, coin, price) ==
    [st EXCEPT !.holdings = Del(@, coin),
               !.buy_prices = Del(@, coin),
               !.reference_prices = Put(@, coin, price)]

\* A variant that records the purchase before it submits the order.
TryBuy_record_first(st, coin, amount, price, raised) ==
    [st EXCEPT !.holdings = Put(@, coin, amount),
               !.buy_prices = Put(@, coin, price),
               !.reference_prices = Put(@, coin, price)]

\* Lines 98-124: the state after the buy's try block, whose order call
\* returned (raised = "none") or raised.  The purchase is recorded after
\* the call, so only when it returned.
TryBuy(st, coin, amount, price, raised) ==
    IF raised = "none" THEN RecordPurchase(st, coin, amount, price) ELSE st

\* A variant that resets the reference price at every sell attempt.
TrySell_reset_always(st, coin, price, raised) ==
    IF raised = "none" THEN RemoveHolding(st, coin, price)
    ELSE UpdateReference(st, coin, price)

\* Lines 141-154: the same for the sell.
TrySell(st, coin, price, raised) ==
    IF raised = "none" THEN RemoveHolding(st, coin, price) ELSE st

\* A variant that catches network errors only.
CaughtByExcept_network_only(raised) == raised = "NetworkError"

\* Lines 123 and 153, `except Exception`: every exception of the exchange
\* client is caught; KeyboardInterrupt derives from BaseException and is not.
CaughtByExcept(raised) == raised \in ExchangeErrors

\* How an order call may end: what it raised, whether the exchange executed
\* the order, and how much of it the exchange filled.  A call cut short by a
\* network error or by an interrupt may or may not have reached the
\* exchange.  The receipt of an executed order reports the filled amount,
\* which may be less than the amount asked for.
OrderOutcomes ==
    [raised : {"none"}, executed : {TRUE}, fill : {"full", "partial"}]
    \cup {[raised |-> "InsufficientFunds", executed |-> FALSE, fill |-> "none"]}
    \cup [raised : {"NetworkError", "KeyboardInterrupt"}, executed : {TRUE},
          fill : {"full"}]
    \cup [raised : {"NetworkError", "KeyboardInterrupt"}, executed : {FALSE},
          fill : {"none"}]

\* The amount the exchange filled of an order for `amount`.
Filled(amount, out) ==
    CASE out.fill = "full" -> amount
      [] out.fill = "partial" -> amount \div 2
      [] out.fill = "none" -> 0

\* ------------------------------------------------------------ the process
VARIABLES
    state,           \* main's `state`: holdings, buy_prices, reference_prices
    file,            \* trading_state.json
    pc,              \* where main() is
    tickers,         \* what the exchange answered to this cycle's fetch_ticker calls
    current_prices,  \* the result of this cycle's get_current_prices
    todo,            \* the coins the loop of line 82 has still to visit
    orders,          \* the orders submitted to the exchange in this cycle
    ev,              \* what the step just taken did, when it was an iteration
                     \* of the loop of line 82
    start,           \* `state` as it was when this cycle began
    final_saved,     \* the save_state call of line 199 has returned
    low,             \* the history of observed prices, in the specifications
                     \* that record it: for every flat coin with a reference
                     \* price, the lowest price observed since the reference
                     \* was last reset (all), and the lowest among the
                     \* observations that did not start a buy (quiet)
    call             \* in SpecRound: one computation of the amount of a buy
                     \* order, its inputs and its result

vars == <<state, file, pc, tickers, current_prices, todo, orders, ev, start,
          final_saved, low, call>>

NoTickers == [c \in CoinSet |-> FetchError]
NoEvent == [kind |-> "none", coin |-> "", price |-> None, raised |-> "none",
            filled |-> 0, pre |-> EmptyState]
Event(kind, coin, price, raised) ==
    [kind |-> kind, coin |-> coin, price |-> price, raised |-> raised,
     filled |-> 0, pre |-> state]
\* The same for an iteration that submitted an order, with the amount the
\* exchange filled.
OrderEvent(kind, coin, price, out, amount) ==
    [kind |-> kind, coin |-> coin, price |-> price, raised |-> out.raised,
     filled |-> Filled(amount, out), pre |-> state]

\* The history of observed prices.  Spec does not record it (low stays
\* NotRecorded); SpecWide does.
NotRecorded == [c \in {"-"} |-> [all |-> None, quiet |-> None]]
Recorded(lw, new) == IF lw = NotRecorded THEN lw ELSE new
Min(a, b) == IF a <= b THEN a ELSE b
Lowest(lw, coin, price) ==
    IF Has(lw, coin) THEN lw[coin] ELSE [all |-> price, quiet |-> price]
\* After an iteration of the loop of line 82 that did `kind` to the coin.
Track(lw, kind, coin, price) ==
    CASE kind \in {"init", "sell_ok"} ->
            IF price = None THEN Del(lw, coin)
            ELSE Put(lw, coin, [all |-> price, quiet |-> price])
      [] kind \in {"ratchet", "flat_keep"} ->
            Put(lw, coin, [all |-> Min(Lowest(lw, coin, price).all, price),
                           quiet |-> Min(Lowest(lw, coin, price).quiet, price)])
      [] kind \in {"buy_failed", "buy_interrupted"} ->
            Put(lw, coin, [all |-> Min(Lowest(lw, coin, price).all, price),
                           quiet |-> Lowest(lw, coin, price).quiet])
      [] kind = "buy_ok" -> Del(lw, coin)
      [] OTHER -> lw
\* After the bootstrap: the prices it fetched.
Observed(cp) ==
    [c \in {d \in DOMAIN cp : cp[d] # None} |->
        [all |-> cp[c], quiet |-> cp[c]]]
\* After load_state: the process has observed nothing yet, the reference
\* prices it loaded stand for what its predecessors observed.
Known(lw, st) ==
    [c \in {d \in DOMAIN st.reference_prices :
                /\ ~Has(st.holdings, d)
                /\ st.reference_prices[d] # None} |->
        [all |-> st.reference_prices[c], quiet |-> st.reference_prices[c]]]

\* One computation of the amount of a buy order; none in Spec.
NoCall == [price |-> 1, mp |-> [type |-> "float", value |-> 0],
           amount |-> 0, done |-> TRUE]

\* The first run: no state file, nothing in memory.
Init ==
    /\ state = EmptyState
    /\ file = FileAbsent
    /\ pc = "start"
    /\ tickers = NoTickers
    /\ current_prices = EmptyMap
    /\ todo = <<>>
    /\ orders = <<>>
    /\ ev = NoEvent
    /\ start = EmptyState
    /\ final_saved = FALSE
    /\ low = NotRecorded
    /\ call = NoCall

\* Lines 161-169: load_state, then the choice between the bootstrap and the
\* loop.  json.load of a truncated file raises, outside the try of main.
Startup ==
    /\ pc = "start"
    /\ IF file.kind = "partial"
       THEN /\ pc' = "crashed"
            /\ state' = state
            /\ low' = low
            /\ UNCHANGED call
       ELSE LET loaded == IF file.kind = "absent" THEN EmptyState
                          ELSE json_load(file.doc)
            IN /\ state' = loaded
               /\ low' = Recorded(low, Known(low, loaded))
               /\ UNCHANGED call
               /\ pc' = IF loaded.reference_prices = EmptyMap
                        THEN "boot_fetch" ELSE "fetch"
    /\ UNCHANGED <<file, tickers, current_prices, todo, orders, ev, start,
                   final_saved>>

\* A variant that gives every monitored coin an entry, None when the fetch
\* has no price for it.
Seed_all(st, cp) ==
    [st EXCEPT !.reference_prices =
        [c \in CoinSet |-> IF c \in DOMAIN cp THEN cp[c] ELSE None]]

\* Lines 171-173: the reference price of every coin the bootstrap fetch has
\* a price for.
Seed(st, cp) ==
    [st EXCEPT !.reference_prices =
        [c \in (DOMAIN @) \cup (DOMAIN cp) |->
            IF c \in DOMAIN cp THEN cp[c] ELSE @[c]]]

BootstrapFrom(answers) ==
    /\ pc = "boot_fetch"
    /\ \E tk \in answers :
          /\ tickers' = tk
          /\ current_prices' = get_current_prices(tk)
          /\ state' = Seed(state, get_current_prices(tk))
          /\ low' = Recorded(low, Observed(get_current_prices(tk)))
          /\ UNCHANGED call
    /\ pc' = "boot_save"
    /\ UNCHANGED <<file, todo, orders, ev, start, final_saved>>

Bootstrap == BootstrapFrom([CoinSet -> TickerResponses])

\* save_state, lines 57-60, in its two steps: open(STATE_FILE, 'w')
\* truncates the file, json.dump and the close write the document.
AfterOpen(p) ==
    CASE p = "boot_save" -> "boot_dump"
      [] p = "save" -> "dump"
      [] p = "final" -> "final_dump"
AfterDump(p) ==
    CASE p = "boot_dump" -> "fetch"
      [] p = "dump" -> "sleep"
      [] p = "final_dump" -> "exit"

SaveOpen ==
    /\ pc \in {"boot_save", "save", "final"}
    /\ file' = FilePartial
    /\ pc' = AfterOpen(pc)
    /\ ev' = NoEvent
    /\ UNCHANGED <<state, tickers, current_prices, todo, orders, start,
                   final_saved, low, call>>

SaveDump ==
    /\ pc \in {"boot_dump", "dump", "final_dump"}
    /\ file' = FileOf(state)
    /\ pc' = AfterDump(pc)
    /\ final_saved' = (final_saved \/ pc = "final_dump")
    /\ UNCHANGED <<state, tickers, current_prices, todo, orders, ev, start,
                   low, call>>

\* Line 181: the prices of this cycle.
FetchFrom(answers) ==
    /\ pc = "fetch"
    /\ \E tk \in answers :
          /\ tickers' = tk
          /\ current_prices' = get_current_prices(tk)
          /\ todo' = Items(get_current_prices(tk))
    /\ orders' = <<>>
    /\ ev' = NoEvent
    /\ start' = state
    /\ pc' = "check"
    /\ UNCHANGED <<state, file, final_saved, low, call>>

Fetch == FetchFrom([CoinSet -> TickerResponses])

\* ---- check_trading_conditions, one iteration of the loop of line 82
Coin == Head(todo)
Price == current_prices[Coin]
AtCoin(branch) ==
    /\ pc = "check"
    /\ todo # <<>>
    /\ Branch(state, Coin, Price) = branch

\* The iteration ends and the loop goes on.
Continue ==
    /\ todo' = Tail(todo)
    /\ pc' = "check"
    /\ UNCHANGED <<file, tickers, current_prices, start, final_saved>>

\* An exception leaves check_trading_conditions and the loop of main, and is
\* handled at line 193 or 195; the finally block follows.
Propagate ==
    /\ todo' = Tail(todo)
    /\ pc' = "final"
    /\ UNCHANGED <<file, tickers, current_prices, start, final_saved>>

FirstObservation ==
    /\ AtCoin("init")
    /\ state' = InitReference(state, Coin, Price)
    /\ ev' = Event("init", Coin, Price, "none")
    /\ low' = Recorded(low, Track(low, "init", Coin, Price))
    /\ UNCHANGED call
    /\ UNCHANGED orders
    /\ Continue

Ratchet ==
    /\ AtCoin("ratchet")
    /\ state' = UpdateReference(state, Coin, Price)
    /\ ev' = Event("ratchet", Coin, Price, "none")
    /\ low' = Recorded(low, Track(low, "ratchet", Coin, Price))
    /\ UNCHANGED call
    /\ UNCHANGED orders
    /\ Continue

FlatKeep ==
    /\ AtCoin("flat_keep")
    /\ ev' = Event("flat_keep", Coin, Price, "none")
    /\ low' = Recorded(low, Track(low, "flat_keep", Coin, Price))
    /\ UNCHANGED call
    /\ UNCHANGED <<state, orders>>
    /\ Continue

HoldKeep ==
    /\ AtCoin("hold_keep")
    /\ state' = KeepHolding(state, Coin, Price)
    /\ ev' = Event("hold_keep", Coin, Price, "none")
    /\ low' = Recorded(low, Track(low, "hold_keep", Coin, Price))
    /\ UNCHANGED call
    /\ UNCHANGED orders
    /\ Continue

\* Lines 93 and 134 on a None: the TypeError is not caught in
\* check_trading_conditions.
UncaughtError ==
    /\ AtCoin("TypeError")
    /\ ev' = Event("error", Coin, Price, "TypeError")
    /\ low' = Recorded(low, Track(low, "error", Coin, Price))
    /\ UNCHANGED call
    /\ UNCHANGED <<state, orders>>
    /\ Propagate

Order(side, amount, out) ==
    [coin |-> Coin, side |-> side, amount |-> amount,
     raised |-> out.raised, executed |-> out.executed]

Outcome(side, raised) ==
    IF raised = "none" THEN side \o "_ok"
    ELSE IF CaughtByExcept(raised) THEN side \o "_failed"
    ELSE side \o "_interrupted"

\* Line 103: load_markets (or the lookup of line 104) raises; no order is
\* submitted.
BuyNoMarket ==
    /\ AtCoin("buy")
    /\ \E e \in ExchangeErrors :
          /\ state' = TryBuy(state, Coin, 0, Price, e)
          /\ ev' = Event(Outcome("buy", e), Coin, Price, e)
          /\ low' = Recorded(low, Track(low, Outcome("buy", e), Coin, Price))
          /\ UNCHANGED call
          /\ IF CaughtByExcept(e) THEN Continue ELSE Propagate
    /\ UNCHANGED orders

\* Lines 100-121: the buy order is submitted.
Buy ==
    /\ AtCoin("buy")
    /\ \E mp \in MarketPrecisions, out \in OrderOutcomes :
          LET amount == amount_in_coin(Price, mp)
          IN /\ orders' = Append(orders, Order("buy", amount, out))
             /\ state' = TryBuy(state, Coin, amount, Price, out.raised)
             /\ ev' = OrderEvent(Outcome("buy", out.raised), Coin, Price, out,
                                 amount)
             /\ low' = Recorded(low, Track(low, Outcome("buy", out.raised), Coin, Price))
             /\ UNCHANGED call
             /\ IF out.raised = "none" \/ CaughtByExcept(out.raised)
                THEN Continue ELSE Propagate

\* Lines 139-151: the sell order is submitted.
Sell ==
    /\ AtCoin("sell")
    /\ \E out \in OrderOutcomes :
          /\ orders' = Append(orders,
                              Order("sell", amount_to_sell(state, Coin), out))
          /\ state' = TrySell(state, Coin, Price, out.raised)
          /\ ev' = OrderEvent(Outcome("sell", out.raised), Coin, Price, out,
                              amount_to_sell(state, Coin))
          /\ low' = Recorded(low, Track(low, Outcome("sell", out.raised), Coin, Price))
          /\ UNCHANGED call
          /\ IF out.raised = "none" \/ CaughtByExcept(out.raised)
             THEN Continue ELSE Propagate

\* Line 156: every coin of current_prices has been visited.
CheckDone ==
    /\ pc = "check"
    /\ todo = <<>>
    /\ pc' = "save"
    /\ ev' = NoEvent
    /\ UNCHANGED <<state, file, tickers, current_prices, todo, orders, start,
                   final_saved, low, call>>

\* Line 191.
Sleep ==
    /\ pc = "sleep"
    /\ pc' = "fetch"
    /\ UNCHANGED <<state, file, tickers, current_prices, todo, orders, ev,
                   start, final_saved, low, call>>

\* A KeyboardInterrupt between two steps.  Before the try of line 176 it ends
\* the process; inside it, line 193 handles it and the finally block runs;
\* inside the finally block it ends the process.
AfterInterrupt(p) ==
    IF p \in {"fetch", "check", "save", "dump", "sleep"} THEN "final" ELSE "exit"

Interrupt ==
    /\ pc \in {"boot_fetch", "boot_save", "boot_dump", "fetch", "check",
               "save", "dump", "sleep", "final", "final_dump"}
    /\ pc' = AfterInterrupt(pc)
    /\ ev' = NoEvent
    /\ UNCHANGED <<state, file, tickers, current_prices, todo, orders, start,
                   final_saved, low, call>>

\* The bot is started again: a new process, with nothing in memory.
Restart ==
    /\ pc = "exit"
    /\ pc' = "start"
    /\ state' = EmptyState
    /\ tickers' = NoTickers
    /\ current_prices' = EmptyMap
    /\ todo' = <<>>
    /\ orders' = <<>>
    /\ ev' = NoEvent
    /\ start' = EmptyState
    /\ final_saved' = FALSE
    /\ UNCHANGED <<file, low, call>>

Next ==
    \/ Startup
    \/ Bootstrap
    \/ SaveOpen
    \/ SaveDump
    \/ Fetch
    \/ FirstObservation
    \/ Ratchet
    \/ FlatKeep
    \/ HoldKeep
    \/ UncaughtError
    \/ BuyNoMarket
    \/ Buy
    \/ Sell
    \/ CheckDone
    \/ Sleep
    \/ Interrupt
    \/ Restart

Spec == Init /\ [][Next]_vars

\* ---------------------------------------------- one coin, a wider price range
\* The same program watched on its first coin only (the exchange answers for
\* no other), over a range of prices wide enough for a price to sit exactly
\* on, just inside and just outside both thresholds, and with the history of
\* the observed prices recorded.
WideMargin == 2
WidePrices == (MinPrice - WideMargin)..(MaxPrice + WideMargin)
WideTickers ==
    {tk \in [CoinSet -> WidePrices \cup {None, FetchError}] :
        \A c \in CoinSet \ {COINS[1]} : tk[c] = FetchError}

InitWide ==
    /\ state = EmptyState
    /\ file = FileAbsent
    /\ pc = "start"
    /\ tickers = NoTickers
    /\ current_prices = EmptyMap
    /\ todo = <<>>
    /\ orders = <<>>
    /\ ev = NoEvent
    /\ start = EmptyState
    /\ final_saved = FALSE
    /\ low = EmptyMap
    /\ call = NoCall

BootstrapWide == BootstrapFrom(WideTickers)
FetchWide == FetchFrom(WideTickers)

NextWide ==
    \/ Startup
    \/ BootstrapWide
    \/ SaveOpen
    \/ SaveDump
    \/ FetchWide
    \/ FirstObservation
    \/ Ratchet
    \/ FlatKeep
    \/ HoldKeep
    \/ UncaughtError
    \/ BuyNoMarket
    \/ Buy
    \/ Sell
    \/ CheckDone
    \/ Sleep
    \/ Interrupt
    \/ Restart

SpecWide == InitWide /\ [][NextWide]_vars

\* ---------------------------------------------- the sizing of a buy order
\* amount_in_coin as a function of the price and of the market's precision:
\* the inputs are drawn, the computation of lines 100-110 is applied once.
MaxRoundPrice == 40
RoundPrices == 1..MaxRoundPrice \cup {100, 30000}
AllPrecisions ==
    {[type |-> "int", value |-> v] : v \in 0..DEFAULT_PRECISION}
    \cup {[type |-> "float", value |-> 0]}

InitRound ==
    /\ state = EmptyState
    /\ file = FileAbsent
    /\ pc = "start"
    /\ tickers = NoTickers
    /\ current_prices = EmptyMap
    /\ todo = <<>>
    /\ orders = <<>>
    /\ ev = NoEvent
    /\ start = EmptyState
    /\ final_saved = FALSE
    /\ low = NotRecorded
    /\ call \in [price : RoundPrices, mp : AllPrecisions, amount : {0},
                 done : {FALSE}]

ComputeAmount ==
    /\ ~call.done
    /\ call' = [call EXCEPT !.amount = amount_in_coin(call.price, call.mp),
                            !.done = TRUE]
    /\ UNCHANGED <<state, file, pc, tickers, current_prices, todo, orders, ev,
                   start, final_saved, low>>

NextRound == ComputeAmount

SpecRound == InitRound /\ [][NextRound]_vars

\* ============================================================ properties
IsFlat(st, c) == ~Has(st.holdings, c)
IsHolding(st, c) == Has(st.holdings, c)
NoOrderFor(c) == \A i \in 1..Len(orders) : orders[i].coin # c
LastOrder == orders[Len(orders)]

\* The last step was an iteration of the loop of line 82 that saw a price
\* (a number) for a coin that was flat with a reference price (a number).
SawFlat ==
    /\ ev.kind # "none"
    /\ ev.price # None
    /\ IsFlat(ev.pre, ev.coin)
    /\ Has(ev.pre.reference_prices, ev.coin)
    /\ ev.pre.reference_prices[ev.coin] # None

\* The same for a coin that was held.
SawHolding ==
    /\ ev.kind # "none"
    /\ ev.price # None
    /\ IsHolding(ev.pre, ev.coin)
    /\ Has(ev.pre.buy_prices, ev.coin)

\* price <= referencePrice * (1 - dropThreshold), in hundredths.
AtOrBelowDrop(price, ref) == price * 100 <= ref * (100 - PRICE_DROP_THRESHOLD)
\* price >= buyPrice * (1 + riseThreshold), in hundredths.
AtOrAboveRise(price, buy) == price * 100 >= buy * (100 + PRICE_RISE_THRESHOLD)

\* C1: when a flat coin's price is at or below referencePrice * (1 -
\* dropThreshold) and the buy order succeeds, the coin is held afterwards,
\* its buy price is the observed price and its reference price is reset to
\* the observed price.
C1_BuyRecorded ==
    (/\ SawFlat
     /\ AtOrBelowDrop(ev.price, ev.pre.reference_prices[ev.coin])
     /\ ev.kind = "buy_ok")
    => /\ IsHolding(state, ev.coin)
       /\ Has(state.buy_prices, ev.coin)
       /\ state.buy_prices[ev.coin] = ev.price
       /\ state.reference_prices[ev.coin] = ev.price

C1_Witness ==
    /\ SawFlat
    /\ AtOrBelowDrop(ev.price, ev.pre.reference_prices[ev.coin])
    /\ ev.kind = "buy_ok"
    /\ ev.pre.reference_prices[ev.coin] > ev.price
    /\ state.reference_prices[ev.coin] = ev.price

\* C2: when a held coin's price is at or above buyPrice * (1 +
\* riseThreshold), a sell order for exactly the recorded holding is
\* submitted, and when it succeeds the coin is flat again: its holdings and
\* buy_prices entries are gone and its reference price is the observed price.
C2_SellAll ==
    (/\ SawHolding
     /\ AtOrAboveRise(ev.price, ev.pre.buy_prices[ev.coin]))
    => /\ ev.kind \in {"sell_ok", "sell_failed", "sell_interrupted"}
       /\ orders # <<>>
       /\ LastOrder.coin = ev.coin
       /\ LastOrder.side = "sell"
       /\ LastOrder.amount = ev.pre.holdings[ev.coin]
       /\ ev.kind = "sell_ok" =>
             /\ ~Has(state.holdings, ev.coin)
             /\ ~Has(state.buy_prices, ev.coin)
             /\ state.reference_prices[ev.coin] = ev.price

C2_Witness ==
    /\ SawHolding
    /\ AtOrAboveRise(ev.price, ev.pre.buy_prices[ev.coin])
    /\ ev.kind = "sell_ok"
    /\ LastOrder.amount = ev.pre.holdings[ev.coin]
    /\ LastOrder.amount > 0
    /\ IsFlat(state, ev.coin)

\* C3: an order whose exchange call raised leaves the recorded state as it
\* was before the attempt, so the same coin at the same price takes the same
\* branch again.
C3_FailedOrderKeepsState ==
    ev.raised \in ExchangeErrors \cup {"KeyboardInterrupt"}
    => /\ state = ev.pre
       /\ Branch(state, ev.coin, ev.price) = Branch(ev.pre, ev.coin, ev.price)

C3_Witness ==
    /\ ev.kind = "sell_failed"
    /\ orders # <<>>
    /\ LastOrder.raised \in ExchangeErrors
    /\ IsHolding(state, ev.coin)
    /\ state = ev.pre

\* C4: in memory and in every complete document of the state file, a coin
\* has a holdings entry exactly when it has a buy_prices entry.
Paired(st) == \A c \in CoinSet : Has(st.holdings, c) <=> Has(st.buy_prices, c)

C5_FirstObservation ==
    (ev.kind # "none" /\ ~Has(ev.pre.reference_prices, ev.coin))
    => /\ ev.kind = "init"
       /\ Has(state.reference_prices, ev.coin)
       /\ state.reference_prices[ev.coin] = ev.price
       /\ state.holdings = ev.pre.holdings
       /\ state.buy_prices = ev.pre.buy_prices
       /\ NoOrderFor(ev.coin)

C5_Witness ==
    /\ ev.kind = "init"
    /\ ev.price \in Prices
    /\ ~Has(ev.pre.reference_prices, ev.coin)
    /\ state.reference_prices[ev.coin] = ev.price
    /\ orders # <<>>

\* C6: a flat coin whose price is below its reference price but above the
\* drop threshold gets the price as its reference price and no order; and
\* whatever the price, a coin that is flat before and after an iteration
\* does not get a higher reference price.
C6_RatchetDown ==
    /\ (SawFlat
        /\ ev.price < ev.pre.reference_prices[ev.coin]
        /\ ~AtOrBelowDrop(ev.price, ev.pre.reference_prices[ev.coin]))
       => /\ ev.kind = "ratchet"
          /\ state.reference_prices[ev.coin] = ev.price
          /\ IsFlat(state, ev.coin)
          /\ NoOrderFor(ev.coin)
    /\ (SawFlat /\ IsFlat(state, ev.coin))
       => state.reference_prices[ev.coin] <= ev.pre.reference_prices[ev.coin]

C6_Witness ==
    /\ SawFlat
    /\ ev.kind = "ratchet"
    /\ state.reference_prices[ev.coin] = ev.price
    /\ ev.price < ev.pre.reference_prices[ev.coin]

C6_WitnessHigherPrice ==
    /\ SawFlat
    /\ ev.price > ev.pre.reference_prices[ev.coin]

\* C7: the state is on file after every completed cycle, and the process
\* never ends without having run the final save of line 199.
C7_AlwaysFinalSave ==
    /\ pc = "sleep" => file = FileOf(state)
    /\ pc = "exit" => final_saved

\* C8: an exception of the exchange client raised while an order is placed
\* does not leave check_trading_conditions: the loop of line 82 goes on with
\* the coins that follow, and main stays in its loop.
RECURSIVE After(_, _)
After(seq, c) ==
    IF seq = <<>> THEN <<>>
    ELSE IF Head(seq) = c THEN Tail(seq) ELSE After(Tail(seq), c)

C8_OrderErrorCaught ==
    ev.raised \in ExchangeErrors
    => /\ pc = "check"
       /\ todo = After(Items(current_prices), ev.coin)

C8_Witness ==
    /\ ev.raised = "InsufficientFunds"
    /\ pc = "check"
    /\ todo # <<>>

\* C9: a coin whose ticker fetch failed is not in the price mapping, every
\* other coin is, with the price the exchange gave, and during the cycle the
\* failed coin's entries stay as they were when the cycle began and no order
\* is placed for it.
Entries(st, c) ==
    <<Has(st.holdings, c), Has(st.buy_prices, c), Has(st.reference_prices, c),
      IF Has(st.holdings, c) THEN st.holdings[c] ELSE None,
      IF Has(st.buy_prices, c) THEN st.buy_prices[c] ELSE None,
      IF Has(st.reference_prices, c) THEN st.reference_prices[c] ELSE None>>

C9_FetchFailureSkipsCoin ==
    \A c \in CoinSet :
        /\ tickers[c] = FetchError => ~Has(current_prices, c)
        /\ (tickers[c] # FetchError /\ pc # "start" /\ pc # "boot_fetch")
           => /\ Has(current_prices, c)
              /\ current_prices[c] = tickers[c]
        /\ (tickers[c] = FetchError /\ pc \in {"check", "save", "dump", "sleep"})
           => /\ Entries(state, c) = Entries(start, c)
              /\ NoOrderFor(c)
              /\ \A i \in 1..Len(todo) : todo[i] # c

C9_Witness ==
    /\ pc = "check"
    /\ todo = <<>>
    /\ tickers[COINS[1]] = FetchError
    /\ tickers[COINS[2]] \in Prices
    /\ IsHolding(start, COINS[1])
    /\ Entries(state, COINS[2]) # Entries(start, COINS[2])

\* C10: the state file never holds an empty or partial document.
C10_FileNeverPartial == file.kind # "partial"

\* C11: what save_state writes, load_state reads back unchanged: holdings,
\* buy_prices and reference_prices of every coin are the same, so every coin
\* takes the same branch at every price; and after a completed save the
\* file holds the state in memory.
DecisionInputs == Prices \cup {None}

BuyKinds == {"buy_ok", "buy_failed", "buy_interrupted"}
SellKinds == {"sell_ok", "sell_failed", "sell_interrupted"}
ScenarioFlat(ref) ==
    [EmptyState EXCEPT !.reference_prices = Put(@, COINS[1], ref)]
ScenarioHolding(buy) ==
    [holdings |-> Put(EmptyMap, COINS[1], 1),
     buy_prices |-> Put(EmptyMap, COINS[1], buy),
     reference_prices |-> Put(EmptyMap, COINS[1], buy)]

C12_WitnessRise ==
    /\ SawHolding
    /\ ev.kind = "sell_ok"
    /\ ev.price * 100 = ev.pre.buy_prices[ev.coin]
                           * (100 + PRICE_RISE_THRESHOLD)

C12_WitnessBelowRise ==
    /\ SawHolding
    /\ ev.kind = "hold_keep"
    /\ (ev.price + 1) * 100 = ev.pre.buy_prices[ev.coin]
                                 * (100 + PRICE_RISE_THRESHOLD)

\* C13: the amount of a buy order is fixedNotional / price rounded half-up
\* at the market's precision when that is an integer and at 8 decimals
\* otherwise: it is a multiple n of 10^-precision with
\* n - 1/2 <= fixedNotional / price * 10^precision < n + 1/2; and 5 / 30000
\* at precision 4 is 0.0002.
PrecisionUsed == IF call.mp.type = "int" THEN call.mp.value ELSE 8
AmountSteps == call.amount \div Pow10(AMOUNT_DIGITS - PrecisionUsed)

C13_BuyAmountHalfUp ==
    call.done =>
        /\ call.amount = AmountSteps * Pow10(AMOUNT_DIGITS - PrecisionUsed)
        /\ (2 * AmountSteps - 1) * call.price
               <= 2 * AMOUNT_TO_BUY * Pow10(PrecisionUsed)
        /\ 2 * AMOUNT_TO_BUY * Pow10(PrecisionUsed)
               < (2 * AmountSteps + 1) * call.price
        /\ (call.price = 30000 /\ PrecisionUsed = 4) => call.amount = 20000

C13_Witness ==
    /\ call.done
    /\ call.price = 30000
    /\ call.mp = [type |-> "int", value |-> 4]
    /\ call.amount = 20000

\* A tie: 5 / 2 at precision 0 is 2.5, submitted as 3.
C13_WitnessTie ==
    /\ call.done
    /\ call.price = 2
    /\ call.mp = [type |-> "int", value |-> 0]
    /\ call.amount = 3 * Pow10(AMOUNT_DIGITS)

\* C14 as stated: after the bootstrap of a first run and before the first
\* cycle, every monitored coin has a reference price.
AfterBootstrap == pc \in {"boot_save", "boot_dump"}

C14_AllSeeded ==
    AfterBootstrap => \A c \in CoinSet : Has(state.reference_prices, c)

\* C14: after the bootstrap of a first run and before the first cycle, a
\* monitored coin has a reference price exactly when its bootstrap fetch
\* succeeded, and the reference price is what the fetch returned; holdings
\* and buy prices are untouched.
C14_SeededWhereFetched ==
    AfterBootstrap =>
        /\ \A c \in CoinSet :
              /\ Has(state.reference_prices, c) <=> tickers[c] # FetchError
              /\ Has(state.reference_prices, c)
                    => state.reference_prices[c] = tickers[c]
        /\ state.holdings = EmptyMap
        /\ state.buy_prices = EmptyMap

C14_Witness ==
    /\ pc = "boot_dump"
    /\ tickers[COINS[1]] = FetchError
    /\ ~Has(state.reference_prices, COINS[1])
    /\ tickers[COINS[2]] \in Prices
    /\ state.reference_prices[COINS[2]] = tickers[COINS[2]]

\* C15: after a successful buy the recorded holding is the amount the
\* exchange filled for that order, whatever fill it reports.
C15_HoldingIsFilledAmount ==
    ev.kind = "buy_ok" => state.holdings[ev.coin] = ev.filled

\* What the code records instead: the amount it asked for.
C15_HoldingIsRequestedAmount ==
    ev.kind = "buy_ok" => /\ orders # <<>>
                          /\ state.holdings[ev.coin] = LastOrder.amount

C15_PartialFill ==
    /\ ev.kind = "buy_ok"
    /\ ev.filled < LastOrder.amount
    /\ state.holdings[ev.coin] = LastOrder.amount

\* C16: an interrupt never cuts a cycle: no order call ends with a
\* KeyboardInterrupt, and every order of the cycle that the exchange
\* executed is recorded in the state when the shutdown path is about to
\* write the final state (a buy as a holding with its buy price, a sell as
\* the removal of both).
OrderRecorded(o) ==
    IF o.side = "buy"
    THEN /\ Has(state.holdings, o.coin)
         /\ state.holdings[o.coin] = o.amount
         /\ Has(state.buy_prices, o.coin)
    ELSE /\ ~Has(state.holdings, o.coin)
         /\ ~Has(state.buy_prices, o.coin)

C16_InterruptNeverCutsOrder ==
    /\ ev.raised # "KeyboardInterrupt"
    /\ pc = "final" =>
          \A i \in 1..Len(orders) :
              (orders[i].executed /\ orders[i].raised \notin ExchangeErrors)
                 => OrderRecorded(orders[i])

\* An interrupt during an order call that the exchange executed: the final
\* state is about to be written without it.
C16_ExecutedOrderLost ==
    /\ pc = "final"
    /\ ev.kind = "buy_interrupted"
    /\ LastOrder.executed
    /\ IsFlat(state, ev.coin)

\* C17 as stated: while a coin is flat, its reference price is the lowest
\* price observed for it since the reference was last reset, whatever the
\* prices and the outcomes of the orders.
Tracked(c) ==
    /\ IsFlat(state, c)
    /\ Has(state.reference_prices, c)
    /\ state.reference_prices[c] # None

C17_ReferenceIsLowest ==
    \A c \in CoinSet :
        Tracked(c) => /\ Has(low, c)
                      /\ state.reference_prices[c] = low[c].all

\* C17: while a coin is flat, its reference price is the lowest price
\* observed for it since the reference was last reset, among the
\* observations that did not start a buy: a price at or below the drop
\* threshold whose buy did not succeed leaves the reference price as it
\* was, so a lower price than the reference may have been observed.
C17_ReferenceIsLowestNotBought ==
    \A c \in CoinSet :
        Tracked(c) =>
            /\ Has(low, c)
            /\ state.reference_prices[c] = low[c].quiet
            /\ low[c].all <= state.reference_prices[c]

\* A buy failed at a price lower than any other, and a later cycle moved the
\* reference price down to the lowest of the others.
C17_Witness ==
    /\ pc = "sleep"
    /\ Tracked(COINS[1])
    /\ Has(start.reference_prices, COINS[1])
    /\ start.reference_prices[COINS[1]] > state.reference_prices[COINS[1]]
    /\ low[COINS[1]].all < low[COINS[1]].quiet
    /\ state.reference_prices[COINS[1]] = low[COINS[1]].quiet

\* C18: while a coin is held, an iteration that does not complete a sell
\* (the price is below the rise threshold, or the sell order fails) leaves
\* its holding, buy price and reference price as they were, also when the
\* price is below the reference price; and so does a whole cycle after which
\* the coin is still held, a cycle whose fetch failed for the coin included.
InCycle == pc \in {"check", "save", "dump", "sleep"}

C18_HoldingUntouched ==
    /\ (/\ ev.kind # "none"
        /\ IsHolding(ev.pre, ev.coin)
        /\ ev.kind # "sell_ok")
       => Entries(state, ev.coin) = Entries(ev.pre, ev.coin)
    /\ \A c \in CoinSet :
          (InCycle /\ IsHolding(start, c) /\ IsHolding(state, c))
             => Entries(state, c) = Entries(start, c)

\* A held coin seen at a price below its reference price.
C18_Witness ==
    /\ ev.kind = "hold_keep"
    /\ IsHolding(ev.pre, ev.coin)
    /\ ev.price < ev.pre.reference_prices[ev.coin]
    /\ state.reference_prices[ev.coin] = ev.pre.reference_prices[ev.coin]
    /\ IsHolding(state, ev.coin)

C18_WitnessFetchFailed ==
    /\ pc = "sleep"
    /\ tickers[COINS[1]] = FetchError
    /\ IsHolding(start, COINS[1])
    /\ Entries(state, COINS[1]) = Entries(start, COINS[1])

C18_WitnessSellFailed ==
    /\ ev.kind = "sell_failed"
    /\ Entries(state, ev.coin) = Entries(ev.pre, ev.coin)

\* C19: in every state reachable from the empty state, in memory and in
\* every complete document of the state file, a held coin has a reference
\* price and it equals its buy price.
ReferenceIsBuyPrice(st) ==
    \A c \in CoinSet :
        IsHolding(st, c) => /\ Has(st.reference_prices, c)
                            /\ Has(st.buy_prices, c)
                            /\ st.reference_prices[c] = st.buy_prices[c]

OneOrderPerCoin ==
    \A i, j \in 1..Len(orders) : orders[i].coin = orders[j].coin => i = j

\* The holdings in memory change only when an order has succeeded, when
\* load_state reads them in and when the process ends.
HoldingsChangeOnlyByOrder ==
    state'.holdings # state.holdings
        => \/ ev'.kind \in {"buy_ok", "sell_ok"}
           \/ pc = "start"
           \/ pc = "exit"

OrdersFollowHoldings ==
    /\ OneOrderPerCoin
    /\ ev.kind \in BuyKinds => IsFlat(ev.pre, ev.coin)
    /\ ev.kind \in SellKinds => IsHolding(ev.pre, ev.coin)
    /\ ev.kind = "buy_ok" => IsHolding(state, ev.coin)
    /\ ev.kind = "sell_ok" => IsFlat(state, ev.coin)
    /\ (ev.kind # "none" /\ ev.kind \notin {"buy_ok", "sell_ok"})
          => state.holdings = ev.pre.holdings
    /\ ev.kind # "none" =>
          \A c \in CoinSet \ {ev.coin} :
              Entries(state, c) = Entries(ev.pre, c)
    /\ \A i \in 1..Len(orders) :
          orders[i].raised = "none" =>
              (orders[i].side = "buy" <=> IsHolding(state, orders[i].coin))
    /\ \A c \in CoinSet :
          (InCycle /\ NoOrderFor(c))
             => (IsHolding(state, c) <=> IsHolding(start, c))

\* C20: at most one order is submitted per coin per cycle (a coin bought in
\* a cycle is not sold in it); a buy is attempted only for a coin with no
\* recorded holding and a sell only for a coin with one; an order that
\* succeeds flips the coin between flat and held, and nothing else in a run
\* adds or removes a holding: so from the empty state the successful orders
\* of a coin alternate buy, sell, buy, ...
C20_OrdersAlternate ==
    []OrdersFollowHoldings /\ [][HoldingsChangeOnlyByOrder]_vars

\* A buy succeeds for a coin that was flat with a reference price when the
\* state was last saved, as the second successful order of its cycle.
C20_Witness ==
    /\ ev.kind = "buy_ok"
    /\ Len(orders) = 2
    /\ orders[1].raised = "none"
    /\ file.kind = "complete"
    /\ IsFlat(json_load(file.doc), ev.coin)
    /\ Has(json_load(file.doc).reference_prices, ev.coin)
    /\ IsHolding(state, ev.coin)

====
